---- MODULE Spec2Model ----
(***************************************************************************)
(* Model of the XML cut-file to SVG converter (converter_logic.py) and of  *)
(* its two batch drivers: the command-line loop (main) and the desktop     *)
(* front end (gui_main.py, class App).                                     *)
(*                                                                         *)
(* Numbers.  Python floats are modelled as exact fixed-point integers      *)
(* counted in millionths (Unit per 1.0).  Every attribute string of the    *)
(* model has at most three fractional digits, so that scaling by 0.01,     *)
(* 25.4 or 1.0, the Y flip, the +-1.5 widening of a registration mark and  *)
(* the halving of min+max are all exact.  The :.4f format is modelled as   *)
(* rounding to ten-thousandths; a value that lies exactly half way is      *)
(* rounded either way, because the binary double nearest to such a value   *)
(* lies on either side of it (0.00005 prints 0.0001, 0.00015 prints        *)
(* 0.0001).                                                                *)
(*                                                                         *)
(* Left out: the text of the status bar (App.status_label) and of the      *)
(* messages on stdout, which decide nothing.                               *)
(***************************************************************************)
EXTENDS Integers, Sequences, FiniteSets, TLC

VARIABLES
    xml_file,            \* content found at the input path of the call
    svg_file,            \* content found at the output path of the call
    pc,                  \* "call", "returned", "exit" (SystemExit), "raised"
    stderr,              \* diagnostics printed by the call, in order
    locals,              \* the locals of convert_xml_to_svg when it ended
    file_paths,          \* App.file_paths
    file_listbox,        \* entries of App.file_listbox, in order
    output_folder_path,  \* App.output_folder_path
    convert_btn,         \* state of App.convert_btn
    app,                 \* "running", or "exited" once SystemExit left a callback
    messagebox,          \* the batch summary shown last
    disk,                \* output paths written by the batch drivers
    cli                  \* the command-line process: its exit and its progress

vars == << xml_file, svg_file, pc, stderr, locals, file_paths, file_listbox,
           output_folder_path, convert_btn, app, messagebox, disk, cli >>

convVars == << xml_file, svg_file, pc, stderr, locals >>
guiVars == << file_paths, file_listbox, output_folder_path, convert_btn,
              app, messagebox, disk, cli >>

(***************************************************************************)
(* Bounds of the model.                                                    *)
(***************************************************************************)
MaxMarks == 1     \* reg-mark children of a document
MaxPaths == 1     \* cut-path children of a document
MaxElems == 2     \* children of one cut-path
MaxDrop == 2      \* paths carried by one drop event

(***************************************************************************)
(* float(): fixed-point values and the parser of attribute strings.        *)
(***************************************************************************)
Unit == 1000000

None == [present |-> FALSE, s |-> << >>]
Str(s) == [present |-> TRUE, s |-> s]

\* Element.get(key): the attribute's string, or None when it is absent.
Get(attrib, key) == IF key \in DOMAIN attrib THEN Str(attrib[key]) ELSE None

Digits == << "0", "1", "2", "3", "4", "5", "6", "7", "8", "9" >>
IsDigit(c) == \E i \in 1..10 : Digits[i] = c
DigitVal(c) == (CHOOSE i \in 1..10 : Digits[i] = c) - 1

RECURSIVE Pow10(_)
Pow10(n) == IF n = 0 THEN 1 ELSE 10 * Pow10(n - 1)

RECURSIVE DigitsVal(_)
DigitsVal(s) ==
    IF Len(s) = 0 THEN 0
    ELSE 10 * DigitsVal(SubSeq(s, 1, Len(s) - 1)) + DigitVal(s[Len(s)])

AllDigits(s) == \A i \in 1..Len(s) : IsDigit(s[i])

\* Position of the first "." of s, or 0.
DotAt(s) ==
    IF \E i \in 1..Len(s) : s[i] = "."
    THEN CHOOSE i \in 1..Len(s) : s[i] = "." /\ \A j \in 1..(i - 1) : s[j] # "."
    ELSE 0

\* An unsigned decimal: digits, at most one ".", at least one digit, and
\* (as this model counts in millionths) at most six fractional digits.
ParseUnsigned(s) ==
    LET d == DotAt(s)
        ip == IF d = 0 THEN s ELSE SubSeq(s, 1, d - 1)
        fp == IF d = 0 THEN << >> ELSE SubSeq(s, d + 1, Len(s))
    IN  IF AllDigits(ip) /\ AllDigits(fp) /\ Len(ip) + Len(fp) > 0 /\ Len(fp) <= 6
        THEN [err |-> "", val |-> DigitsVal(ip) * Unit
                                   + DigitsVal(fp) * Pow10(6 - Len(fp))]
        ELSE [err |-> "ValueError", val |-> 0]

\* A string without its leading sign, and the sign's effect on the value.
Unsigned(s) == IF Len(s) > 0 /\ s[1] \in {"-", "+"} THEN Tail(s) ELSE s
Signed(s, r) ==
    IF Len(s) > 0 /\ s[1] = "-" THEN [err |-> r.err, val |-> 0 - r.val] ELSE r

\* float(x): TypeError for None, ValueError for a string that is no number.
float(a) ==
    IF ~a.present THEN [err |-> "TypeError", val |-> 0]
    ELSE Signed(a.s, ParseUnsigned(Unsigned(a.s)))

\* The three scale factors as fractions, and float * scale_factor.
Factor(num, den) == [num |-> num, den |-> den]
Times(v, f) == (v \div f.den) * f.num

\* format(v, ".4f"): the value in ten-thousandths; up decides an exact tie.
Fmt4(v, up) ==
    LET q == v \div 100
        r == v % 100
    IN  IF r < 50 THEN q
        ELSE IF r > 50 THEN q + 1
        ELSE IF up THEN q + 1 ELSE q

(***************************************************************************)
(* convert_xml_to_svg, translated block by block.                          *)
(***************************************************************************)
Msg(m, i) == [msg |-> m, path |-> i]

reg_mark_size_mm == 3 * Unit


\* ScaleFactor that takes inches for centimetres.
ScaleFactorCm(units) ==
    IF units.present /\ units.s = "hundredths_mm" THEN Factor(1, 100)
    ELSE IF units.present /\ units.s = "inches" THEN Factor(254, 100)
    ELSE Factor(1, 1)

\* The scaling factor of the units attribute, and whether it is recognised.
ScaleFactor(units) ==
    IF units.present /\ units.s = "hundredths_mm" THEN Factor(1, 100)
    ELSE IF units.present /\ units.s = "inches" THEN Factor(254, 10)
    ELSE Factor(1, 1)

UnitsRecognized(units) ==
    units.present /\ units.s \in {"hundredths_mm", "inches"}

\* x * scale_factor and height_mm - (y * scale_factor).
ScaleX(v, sf) == Times(v, sf)
FlipY(v, sf, height_mm) == height_mm - Times(v, sf)

\* Two pairs of coordinate lists, one after the other.
Coords(xs, ys) == [x |-> xs, y |-> ys]
Cat(a, b) == [x |-> a.x \o b.x, y |-> a.y \o b.y]

\* What one registration mark adds in the pre-scan, fx and fy being the
\* floats of its x and y: both are taken before either list is extended, so
\* a bad mark adds nothing.
ScanMark(fx, fy, sf, height_mm) ==
    IF fx.err # "" \/ fy.err # "" THEN Coords(<< >>, << >>)
    ELSE Coords(<< ScaleX(fx.val, sf) - reg_mark_size_mm \div 2,
                   ScaleX(fx.val, sf) + reg_mark_size_mm \div 2 >>,
                << FlipY(fy.val, sf, height_mm) - reg_mark_size_mm \div 2,
                   FlipY(fy.val, sf, height_mm) + reg_mark_size_mm \div 2 >>)

RECURSIVE ScanMarks(_, _, _)
ScanMarks(marks, sf, height_mm) ==
    IF Len(marks) = 0 THEN Coords(<< >>, << >>)
    ELSE Cat(ScanMark(float(Get(Head(marks).attrib, "x")),
                      float(Get(Head(marks).attrib, "y")), sf, height_mm),
             ScanMarks(Tail(marks), sf, height_mm))

\* The floats of the longest prefix of keys whose attributes all parse: the
\* values a loop "for key in keys: list.append(float(get(key)))" has appended
\* when it ends or raises.
PrefixStep(f, rest) == IF f.err # "" THEN << >> ELSE << f.val >> \o rest

RECURSIVE PrefixVals(_, _)
PrefixVals(attrib, keys) ==
    IF Len(keys) = 0 THEN << >>
    ELSE PrefixStep(float(Get(attrib, Head(keys))), PrefixVals(attrib, Tail(keys)))

RECURSIVE MapScaleX(_, _)
MapScaleX(vals, sf) ==
    IF Len(vals) = 0 THEN << >>
    ELSE << ScaleX(Head(vals), sf) >> \o MapScaleX(Tail(vals), sf)

RECURSIVE MapFlipY(_, _, _)
MapFlipY(vals, sf, height_mm) ==
    IF Len(vals) = 0 THEN << >>
    ELSE << FlipY(Head(vals), sf, height_mm) >> \o MapFlipY(Tail(vals), sf, height_mm)

XKeys == << "x1", "x2", "x3" >>
YKeys == << "y1", "y2", "y3" >>

\* A point in the pre-scan: both floats are taken before either append.
ScanPoint(fx, fy, sf, height_mm) ==
    IF fx.err # "" \/ fy.err # "" THEN Coords(<< >>, << >>)
    ELSE Coords(<< ScaleX(fx.val, sf) >>, << FlipY(fy.val, sf, height_mm) >>)

\* A spline in the pre-scan: the loop over x1, x2, x3 appends as it goes,
\* and the loop over y1, y2, y3 runs only if the first did not raise.
ScanSpline(xs, ys, sf, height_mm) ==
    Coords(MapScaleX(xs, sf),
           IF Len(xs) = 3 THEN MapFlipY(ys, sf, height_mm) ELSE << >>)

\* What one child of a cut-path adds to the two lists in the pre-scan.
ScanElement(element, sf, height_mm) ==
    IF element.tag = "point"
    THEN ScanPoint(float(Get(element.attrib, "x")),
                   float(Get(element.attrib, "y")), sf, height_mm)
    ELSE IF element.tag = "spline"
    THEN ScanSpline(PrefixVals(element.attrib, XKeys),
                    PrefixVals(element.attrib, YKeys), sf, height_mm)
    ELSE Coords(<< >>, << >>)

RECURSIVE ScanElements(_, _, _)
ScanElements(elements, sf, height_mm) ==
    IF Len(elements) = 0 THEN Coords(<< >>, << >>)
    ELSE Cat(ScanElement(Head(elements), sf, height_mm),
             ScanElements(Tail(elements), sf, height_mm))

RECURSIVE ScanPaths(_, _, _)
ScanPaths(paths, sf, height_mm) ==
    IF Len(paths) = 0 THEN Coords(<< >>, << >>)
    ELSE Cat(ScanElements(Head(paths), sf, height_mm),
             ScanPaths(Tail(paths), sf, height_mm))

\* all_x_coords, all_y_coords after the pre-scan.
Scan(root, sf, height_mm) ==
    Cat(ScanMarks(root.marks, sf, height_mm), ScanPaths(root.paths, sf, height_mm))

min(s) == CHOOSE v \in {s[i] : i \in 1..Len(s)} : \A j \in 1..Len(s) : v <= s[j]
max(s) == CHOOSE v \in {s[i] : i \in 1..Len(s)} : \A j \in 1..Len(s) : v >= s[j]

\* The drawing's center, with the fall-back to the canvas center.
NoCoords(all) == Len(all.x) = 0 \/ Len(all.y) = 0


\* DrawingCenter that takes the Y midpoint from the X list.
DrawingCenterOfX(all, width_mm, height_mm) ==
    IF Len(all.x) = 0 \/ Len(all.y) = 0
    THEN [x |-> width_mm \div 2, y |-> height_mm \div 2]
    ELSE [x |-> (min(all.x) + max(all.x)) \div 2,
          y |-> (min(all.x) + max(all.x)) \div 2]

\* DrawingCenter that falls back to the origin.
DrawingCenterOrigin(all, width_mm, height_mm) ==
    IF Len(all.x) = 0 \/ Len(all.y) = 0
    THEN [x |-> 0, y |-> 0]
    ELSE [x |-> (min(all.x) + max(all.x)) \div 2,
          y |-> (min(all.y) + max(all.y)) \div 2]

DrawingCenter(all, width_mm, height_mm) ==
    IF NoCoords(all)
    THEN [x |-> width_mm \div 2, y |-> height_mm \div 2]
    ELSE [x |-> (min(all.x) + max(all.x)) \div 2,
          y |-> (min(all.y) + max(all.y)) \div 2]

\* transform_str: translate(c) rotate(90) translate(-d), numbers as printed.
TransformStr(width_mm, height_mm, center, up) ==
    [translate1 |-> << Fmt4(width_mm \div 2, up), Fmt4(height_mm \div 2, up) >>,
     rotate     |-> 90,
     translate2 |-> << Fmt4(0 - center.x, up), Fmt4(0 - center.y, up) >>]

\* What a loop of the emit pass has produced: elements and warnings.
Emitted(out, err) == [out |-> out, err |-> err]
Both(a, b) == [out |-> a.out \o b.out, err |-> a.err \o b.err]

\* One registration mark in the emit pass, fx and fy being the floats of its
\* x and y: a rect, or a warning.
EmitMark(fx, fy, sf, height_mm, up) ==
    IF fx.err # "" \/ fy.err # ""
    THEN Emitted(<< >>, << Msg("Warning: Skipping a registration mark", 0) >>)
    ELSE Emitted(<< [tag |-> "rect",
                     x |-> Fmt4(ScaleX(fx.val, sf) - reg_mark_size_mm \div 2, up),
                     y |-> Fmt4(FlipY(fy.val, sf, height_mm)
                                - reg_mark_size_mm \div 2, up),
                     width |-> reg_mark_size_mm,
                     height |-> reg_mark_size_mm,
                     fill |-> "black"] >>, << >>)

RECURSIVE EmitMarks(_, _, _, _)
EmitMarks(marks, sf, height_mm, up) ==
    IF Len(marks) = 0 THEN Emitted(<< >>, << >>)
    ELSE Both(EmitMark(float(Get(Head(marks).attrib, "x")),
                       float(Get(Head(marks).attrib, "y")), sf, height_mm, up),
              EmitMarks(Tail(marks), sf, height_mm, up))

Cmd(c, args) == [cmd |-> c, args |-> args]

\* What one child of a cut-path does in the emit pass: the command appended
\* to path_data (if any), whether it raised, and is_first afterwards.
Step(data, raised, is_first) ==
    [data |-> data, raised |-> raised, is_first |-> is_first]

\* A point: M if is_first, else L; a valid point clears is_first.
EmitPoint(fx, fy, is_first, sf, height_mm, up) ==
    IF fx.err # "" \/ fy.err # "" THEN Step(<< >>, TRUE, is_first)
    ELSE Step(<< Cmd(IF is_first THEN "M" ELSE "L",
                     << Fmt4(ScaleX(fx.val, sf), up),
                        Fmt4(FlipY(fy.val, sf, height_mm), up) >>) >>,
              FALSE, FALSE)

\* A spline, f being the floats of its six attributes: all six are taken
\* before the append; C whatever is_first is, and is_first is left as it was.
EmitSpline(f, is_first, sf, height_mm, up) ==
    IF \E k \in DOMAIN f : f[k].err # "" THEN Step(<< >>, TRUE, is_first)
    ELSE Step(<< Cmd("C",
                     << Fmt4(ScaleX(f["x1"].val, sf), up),
                        Fmt4(FlipY(f["y1"].val, sf, height_mm), up),
                        Fmt4(ScaleX(f["x2"].val, sf), up),
                        Fmt4(FlipY(f["y2"].val, sf, height_mm), up),
                        Fmt4(ScaleX(f["x3"].val, sf), up),
                        Fmt4(FlipY(f["y3"].val, sf, height_mm), up) >>) >>,
              FALSE, is_first)

EmitElement(element, is_first, sf, height_mm, up) ==
    IF element.tag = "point"
    THEN EmitPoint(float(Get(element.attrib, "x")),
                   float(Get(element.attrib, "y")), is_first, sf, height_mm, up)
    ELSE IF element.tag = "spline"
    THEN EmitSpline([k \in {"x1", "y1", "x2", "y2", "x3", "y3"} |->
                        float(Get(element.attrib, k))],
                    is_first, sf, height_mm, up)
    ELSE Step(<< >>, FALSE, is_first)

\* The loop over the children of cut-path number i: path_data and warnings.
RECURSIVE EmitElements(_, _, _, _, _, _)

EmitRest(e, elements, i, sf, height_mm, up) ==
    Both(Emitted(e.data,
                 IF e.raised
                 THEN << Msg("Warning: Skipping an element in path", i) >>
                 ELSE << >>),
         EmitElements(Tail(elements), e.is_first, i, sf, height_mm, up))

EmitElements(elements, is_first, i, sf, height_mm, up) ==
    IF Len(elements) = 0 THEN Emitted(<< >>, << >>)
    ELSE EmitRest(EmitElement(Head(elements), is_first, sf, height_mm, up),
                  elements, i, sf, height_mm, up)


\* PathElement that does not test path_data.
PathElementAlways(p, i) ==
    Emitted(<< [tag |-> "path", d |-> p.out \o << Cmd("Z", << >>) >>,
                fill |-> "none", stroke |-> "magenta", cutpath |-> i] >>,
            p.err)

\* The path element of cut-path number i, p being its path_data and
\* warnings: emitted if path_data is not empty, closed by Z.  (cutpath is
\* the i of enumerate, kept to tell the paths apart.)
PathElement(p, i) ==
    Emitted(IF Len(p.out) > 0
            THEN << [tag |-> "path", d |-> p.out \o << Cmd("Z", << >>) >>,
                     fill |-> "none", stroke |-> "magenta", cutpath |-> i] >>
            ELSE << >>,
            p.err)

\* The loop over the cut-paths, numbered from i.
RECURSIVE EmitPaths(_, _, _, _, _)
EmitPaths(paths, i, sf, height_mm, up) ==
    IF Len(paths) = 0 THEN Emitted(<< >>, << >>)
    ELSE Both(PathElement(EmitElements(Head(paths), TRUE, i, sf, height_mm, up), i),
              EmitPaths(Tail(paths), i + 1, sf, height_mm, up))

\* The content of the group: the rects of the marks, then the paths.
Group(root, sf, height_mm, up) ==
    Both(EmitMarks(root.marks, sf, height_mm, up),
         EmitPaths(root.paths, 1, sf, height_mm, up))

\* svg_elements: the svg header, the group with its transform, its content.
SvgElements(width_mm, height_mm, transform, g) ==
    [kind |-> "svg", width |-> width_mm, height |-> height_mm,
     viewBox |-> << 0, 0, width_mm, height_mm >>,
     transform |-> transform, g |-> g]

\* ET.parse: what the three kinds of unusable input raise.
ParseOutcome(xml) ==
    IF xml.kind = "malformed" THEN "ParseError"
    ELSE IF xml.kind = "missing" THEN "FileNotFoundError"
    ELSE IF xml.kind = "unreadable" THEN "PermissionError"
    ELSE "ok"


\* CanvasSize that forgets to look at the height.
CanvasSizeWidthOnly(fw, fh, sf) ==
    IF fw.err # "" THEN [err |-> fw.err, width_mm |-> 0, height_mm |-> 0]
    ELSE [err |-> "", width_mm |-> Times(fw.val, sf),
          height_mm |-> Times(fh.val, sf)]

\* width_mm and height_mm out of the floats of width and height, or the
\* error of the first of the two that raised.
CanvasSize(fw, fh, sf) ==
    IF fw.err # "" THEN [err |-> fw.err, width_mm |-> 0, height_mm |-> 0]
    ELSE IF fh.err # "" THEN [err |-> fh.err, width_mm |-> 0, height_mm |-> 0]
    ELSE [err |-> "", width_mm |-> Times(fw.val, sf),
          height_mm |-> Times(fh.val, sf)]

UnitsWarning(units) ==
    IF UnitsRecognized(units) THEN << >>
    ELSE << Msg("Warning: Unrecognized XML units", 0) >>

EmptyWarning(all) ==
    IF NoCoords(all) THEN << Msg("Warning: No valid drawing elements found", 0) >>
    ELSE << >>

\* The state in which the call goes on to the write, or has ended.
Ended(how, at, printed) == [pc |-> how, locals |-> at, stderr |-> printed]

\* Lines 97-143: the generation pass, g being the content of the group.
Generate(sf, size, all, center, g, printed, up) ==
    Ended("write",
          [at |-> "write", scale_factor |-> sf,
           width_mm |-> size.width_mm, height_mm |-> size.height_mm,
           all_x_coords |-> all.x, all_y_coords |-> all.y,
           drawing_center_x |-> center.x, drawing_center_y |-> center.y,
           svg_elements |-> SvgElements(size.width_mm, size.height_mm,
                               TransformStr(size.width_mm, size.height_mm, center, up),
                               g.out)],
          printed \o g.err)

\* Lines 75-95: the center of what the pre-scan collected.
Center(root, sf, size, all, printed, up) ==
    Generate(sf, size, all,
             DrawingCenter(all, size.width_mm, size.height_mm),
             Group(root, sf, size.height_mm, up),
             printed \o EmptyWarning(all), up)

\* Lines 35-73: the canvas size, fatal if it cannot be read, and the pre-scan.
Canvas(root, sf, size, printed, up) ==
    IF size.err # ""
    THEN Ended("exit", [at |-> "size", scale_factor |-> sf],
               printed \o << Msg("Error: Could not read 'width' or 'height'", 0) >>)
    ELSE Center(root, sf, size, Scan(root, sf, size.height_mm), printed, up)

\* Lines 25-33: the scaling factor.
Units(root, sf, printed, up) ==
    Canvas(root, sf,
           CanvasSize(float(Get(root.attrib, "width")),
                      float(Get(root.attrib, "height")), sf),
           printed, up)

\* Lines 15-143 of the call: everything before the output file is opened.
\* up decides the ties of the number formatting.  The result: whether the
\* call has ended ("exit" by sys.exit, "raised" by an uncaught exception) or
\* goes on to the write ("write"), what it printed to stderr, its locals.
Assemble(xml, up) ==
    IF ParseOutcome(xml) = "ParseError"
    THEN Ended("exit", [at |-> "parse"],
               << Msg("Error: Could not parse XML file", 0) >>)
    ELSE IF ParseOutcome(xml) = "FileNotFoundError"
    THEN Ended("exit", [at |-> "parse"],
               << Msg("Error: Input file not found", 0) >>)
    ELSE IF ParseOutcome(xml) # "ok"
    THEN Ended("raised", [at |-> "parse"], << >>)
    ELSE Units(xml.root, ScaleFactor(Get(xml.root.attrib, "units")),
               UnitsWarning(Get(xml.root.attrib, "units")), up)

\* Lines 145-152: the write.  old is the content at the output path before
\* the call; io is what the file system does: "ok", "open" (open raises, the
\* path is untouched) or "write" (open has truncated the file, write raises).
WriteResult(a, old, io) ==
    IF a.pc # "write"
    THEN [pc |-> a.pc, svg_file |-> old, locals |-> a.locals, stderr |-> a.stderr]
    ELSE IF io = "ok"
    THEN [pc |-> "returned", svg_file |-> a.locals.svg_elements,
          locals |-> a.locals, stderr |-> a.stderr]
    ELSE [pc |-> "exit",
          svg_file |-> IF io = "open" THEN old ELSE [kind |-> "truncated"],
          locals |-> a.locals,
          stderr |-> a.stderr
                     \o << Msg("Error: Could not write to output file", 0) >>]

\* The whole call: how it ended, what it printed to stderr, the content at
\* the output path afterwards, and its locals.
convert_xml_to_svg(xml, old, io, up) == WriteResult(Assemble(xml, up), old, io)

(***************************************************************************)
(* The input documents of the model.                                       *)
(***************************************************************************)
SeqsUpTo(S, n) == UNION {[1..k -> S] : k \in 0..n}

UnitsValues == {"hundredths_mm", "inches", "furlongs"}

\* The width and height strings: a valid pair, and pairs with one of the two
\* negative, not a number, or absent.
ValidWidth == << "2", "0", ".", "0", "3" >>
ValidHeight == << "1", "0" >>

GoodSizes == {[width |-> ValidWidth, height |-> ValidHeight]}

OddSizes ==
    {[width |-> << "-", "2", "0" >>, height |-> ValidHeight],
     [width |-> ValidWidth, height |-> << "-", "1", "0" >>],
     [width |-> << "2", "0", "m", "m" >>, height |-> ValidHeight],
     [width |-> ValidWidth, height |-> << >>],
     [height |-> ValidHeight],
     [width |-> ValidWidth]}

\* attrib with the units attribute set to u.
WithUnits(attrib, u) ==
    [k \in DOMAIN attrib \cup {"units"} |-> IF k = "units" THEN u ELSE attrib[k]]

RootAttribs(sizes) == sizes \cup {WithUnits(a, u) : a \in sizes, u \in UnitsValues}

MarkKinds ==
    {[tag |-> "reg-mark", attrib |-> [x |-> << "2" >>, y |-> << "3" >>]],
     [tag |-> "reg-mark", attrib |-> [x |-> << "2" >>, y |-> << "u", "p" >>]]}

\* A point, a spline, and a spline whose x2 attribute is missing.
ElemKinds ==
    {[tag |-> "point",
      attrib |-> [x |-> << ".", "0", "3" >>, y |-> << "5", ".", "0", "0", "7" >>]],
     [tag |-> "spline",
      attrib |-> [x1 |-> << "0" >>, y1 |-> << "0" >>, x2 |-> << "1" >>,
                  y2 |-> << "2" >>, x3 |-> << "4" >>, y3 |-> << "0" >>]],
     [tag |-> "spline",
      attrib |-> [x1 |-> << "8" >>, y1 |-> << "1" >>,
                  y2 |-> << "2" >>, x3 |-> << "9" >>, y3 |-> << "3" >>]]}

Roots(sizes, nm, np, ne) ==
    {[attrib |-> a, marks |-> m, paths |-> p] :
        a \in RootAttribs(sizes),
        m \in SeqsUpTo(MarkKinds, nm),
        p \in SeqsUpTo(SeqsUpTo(ElemKinds, ne), np)}

\* Every body within the bounds under a valid size; under the other sizes,
\* which end the call or leave the body's handling unchanged, the bodies
\* with at most one child of each kind.
Documents ==
    {[kind |-> "xml", root |-> r] :
        r \in Roots(GoodSizes, MaxMarks, MaxPaths, MaxElems)
              \cup Roots(OddSizes, 1, 1, 1)}

Inputs ==
    Documents \cup {[kind |-> "malformed"], [kind |-> "missing"],
                    [kind |-> "unreadable"]}

NoFile == [kind |-> "absent"]
IoOutcomes == {"ok", "open", "write"}

(***************************************************************************)
(* State of the front end after App.__init__.                              *)
(***************************************************************************)
NoFolder == "No output folder selected"

GuiInit ==
    /\ file_paths = {}
    /\ file_listbox = << >>
    /\ output_folder_path = NoFolder
    /\ convert_btn = "disabled"
    /\ app = "running"
    /\ messagebox = [kind |-> "none"]
    /\ disk = {}
    /\ cli = [state |-> "idle"]

(***************************************************************************)
(* Specification of one call of the converter on one input.               *)
(***************************************************************************)
Init ==
    /\ xml_file \in Inputs
    /\ svg_file = NoFile
    /\ pc = "call"
    /\ stderr = << >>
    /\ locals = [at |-> "call"]
    /\ GuiInit

Convert ==
    /\ pc = "call"
    /\ \E up \in BOOLEAN : \E a \in {Assemble(xml_file, up)} :
       \E io \in IoOutcomes : \E r \in {WriteResult(a, svg_file, io)} :
              /\ pc' = r.pc
              /\ svg_file' = r.svg_file
              /\ stderr' = r.stderr
              /\ locals' = r.locals
    /\ UNCHANGED << xml_file >>
    /\ UNCHANGED guiVars

Next == Convert

Spec == Init /\ [][Next]_vars

(***************************************************************************)
(* The batch drivers.  Paths are records of a folder, a file name stem and *)
(* an extension; the file system below is what the drivers find.           *)
(***************************************************************************)
Path(d, n, e) == [dir |-> d, name |-> n, ext |-> e]

FileA == Path("/in", "a", ".xml")        \* a well-formed cut file
FileB == Path("/in", "b", ".xml")        \* not well-formed XML
FileC == Path("/in", "c", ".XML")        \* a well-formed cut file
FileN == Path("/in", "notes", ".txt")    \* not an XML file
FileU == Path("/other", "a", ".xml")     \* exists, cannot be read

AllFiles == {FileA, FileB, FileC, FileN, FileU}

\* Folders that exist; the folders a command line may name and the folders
\* the folder dialog may return.
Folders == {"/in", "/other", "/out", "/empty"}
InputFolders == {"/in", "/other", "/empty", "/nowhere"}
DialogFolders == {"/out", "/nowhere"}

DocA ==
    [kind |-> "xml",
     root |-> [attrib |-> [units |-> "inches", width |-> ValidWidth,
                           height |-> ValidHeight],
               marks |-> << >>,
               paths |-> << << [tag |-> "point",
                                attrib |-> [x |-> << "1" >>, y |-> << "1" >>]] >> >>]]

DocC ==
    [kind |-> "xml",
     root |-> [attrib |-> [units |-> "hundredths_mm", width |-> ValidWidth,
                           height |-> ValidHeight],
               marks |-> << [tag |-> "reg-mark",
                             attrib |-> [x |-> << "2" >>, y |-> << "3" >>]] >>,
               paths |-> << >>]]

Content(path) ==
    IF path = FileA THEN DocA
    ELSE IF path = FileC THEN DocC
    ELSE IF path \in {FileB, FileN} THEN [kind |-> "malformed"]
    ELSE IF path = FileU THEN [kind |-> "unreadable"]
    ELSE [kind |-> "missing"]

\* os.path.isdir, os.listdir, str.lower on an extension, os.path.join of a
\* folder with splitext(basename)[0] + '.svg'.
IsDir(folder) == folder \in Folders
ListDir(folder) == {f \in AllFiles : f.dir = folder}
Lower(ext) == IF ext = ".XML" THEN ".xml" ELSE ext
basename(path) == [name |-> path.name, ext |-> path.ext]
OutputPath(folder, path) == Path(folder, path.name, ".svg")

\* The orders in which a set can be iterated.
Orders(S) ==
    {f \in [1..Cardinality(S) -> S] : \A i, j \in 1..Cardinality(S) : f[i] = f[j] => i = j}

\* How the call on one input file of a batch ends.  The drivers write into
\* a folder that exists, so the write succeeds; the way the call ends does
\* not depend on the rounding of ties.
CallOutcome(path) == convert_xml_to_svg(Content(path), NoFile, "ok", TRUE).pc

\* The loop of start_conversion over files_to_convert: a call that returns
\* counts as a success, an Exception is caught and listed, and SystemExit,
\* which is no Exception, leaves the loop and the handler.
RECURSIVE ConversionLoop(_, _, _)

ConversionStep(outcome, files, output_folder, acc) ==
    IF outcome = "returned"
    THEN ConversionLoop(Tail(files), output_folder,
             [acc EXCEPT !.success_count = @ + 1,
                         !.written = @ \cup {OutputPath(output_folder, Head(files))}])
    ELSE IF outcome = "raised"
    THEN ConversionLoop(Tail(files), output_folder,
             [acc EXCEPT !.error_list = Append(@, basename(Head(files)))])
    ELSE [acc EXCEPT !.exited = TRUE]

ConversionLoop(files, output_folder, acc) ==
    IF Len(files) = 0 THEN acc
    ELSE ConversionStep(CallOutcome(Head(files)), files, output_folder, acc)

LoopStart == [success_count |-> 0, error_list |-> << >>, written |-> {}, exited |-> FALSE]


\* check_button_state that does not look at the folder.
ButtonStateFilesOnly(paths, folder) ==
    IF paths # {} THEN "normal" ELSE "disabled"

\* check_button_state, for the staged set and folder text given.
ButtonState(paths, folder) ==
    IF paths # {} /\ IsDir(folder) THEN "normal" ELSE "disabled"

\* The loop of handle_drop over the dropped paths.
RECURSIVE DropLoop(_, _)
DropLoop(filepaths, acc) ==
    IF Len(filepaths) = 0 THEN acc
    ELSE LET path == Head(filepaths)
         IN  IF Lower(path.ext) = ".xml" /\ path \notin acc.file_paths
             THEN DropLoop(Tail(filepaths),
                      [file_paths |-> acc.file_paths \cup {path},
                       file_listbox |-> Append(acc.file_listbox, basename(path)),
                       added_count |-> acc.added_count + 1])
             ELSE DropLoop(Tail(filepaths), acc)

\* A behaviour runs one of the two drivers on a fresh file system: the
\* front end handles events while its main loop runs and the command line
\* has not been used; the command line runs once, with nothing staged.
GuiRuns == app = "running" /\ cli.state = "idle"

CliRuns ==
    /\ cli.state = "idle"
    /\ file_paths = {} /\ output_folder_path = NoFolder
    /\ messagebox.kind = "none" /\ disk = {}

handle_drop(filepaths) ==
    /\ GuiRuns
    /\ \E d \in {DropLoop(filepaths, [file_paths |-> file_paths,
                                      file_listbox |-> file_listbox,
                                      added_count |-> 0])} :
          /\ file_paths' = d.file_paths
          /\ file_listbox' = d.file_listbox
          /\ IF d.added_count > 0
             THEN convert_btn' = ButtonState(d.file_paths, output_folder_path)
             ELSE UNCHANGED convert_btn
    /\ UNCHANGED << output_folder_path, app, messagebox, disk, cli >>
    /\ UNCHANGED convVars

\* folder_selected is "" when the dialog is cancelled.
select_folder(folder_selected) ==
    /\ GuiRuns
    /\ IF folder_selected # ""
       THEN /\ output_folder_path' = folder_selected
            /\ convert_btn' = ButtonState(file_paths, folder_selected)
       ELSE UNCHANGED << output_folder_path, convert_btn >>
    /\ UNCHANGED << file_paths, file_listbox, app, messagebox, disk, cli >>
    /\ UNCHANGED convVars

clear_list ==
    /\ GuiRuns
    /\ file_paths' = {}
    /\ file_listbox' = << >>
    /\ convert_btn' = ButtonState({}, output_folder_path)
    /\ UNCHANGED << output_folder_path, app, messagebox, disk, cli >>
    /\ UNCHANGED convVars

\* The command of the Convert button, which a disabled button does not run.
\* files_to_convert is list(self.file_paths), in any order.
start_conversion ==
    /\ GuiRuns
    /\ convert_btn = "normal"
    /\ \E files_to_convert \in Orders(file_paths) :
       \E r \in {ConversionLoop(files_to_convert, output_folder_path, LoopStart)} :
          /\ disk' = disk \cup r.written
          /\ IF r.exited
             THEN /\ app' = "exited"
                  /\ UNCHANGED messagebox
             ELSE /\ app' = app
                  /\ messagebox' =
                        [kind |-> IF Len(r.error_list) > 0 THEN "warning" ELSE "info",
                         success_count |-> r.success_count,
                         total_files |-> Len(files_to_convert),
                         error_list |-> r.error_list]
    /\ UNCHANGED << file_paths, file_listbox, output_folder_path, convert_btn, cli >>
    /\ UNCHANGED convVars

\* The loop of main over xml_files: nothing catches what the call raises, so
\* the first call that does not return ends the process.
RECURSIVE MainLoop(_, _, _)

MainStep(outcome, xml_files, output_folder, acc) ==
    IF outcome = "returned"
    THEN MainLoop(Tail(xml_files), output_folder,
             [acc EXCEPT !.converted = @ + 1,
                         !.written = @ \cup {OutputPath(output_folder, Head(xml_files))}])
    ELSE [acc EXCEPT !.code = 1,
                     !.ended = IF outcome = "exit" THEN "sys.exit" ELSE "traceback"]

MainLoop(xml_files, output_folder, acc) ==
    IF Len(xml_files) = 0 THEN acc
    ELSE MainStep(CallOutcome(Head(xml_files)), xml_files, output_folder, acc)

\* main, run once with the folders of its command line; output_folder is ""
\* when -o is not given.  os.makedirs creates a missing output folder.
main(input_folder, output_folder_arg) ==
    /\ CliRuns
    /\ LET output_folder == IF output_folder_arg # "" THEN output_folder_arg
                            ELSE input_folder
           xml_files == {f \in ListDir(input_folder) : f.ext = ".xml"}
       IN  IF ~IsDir(input_folder)
           THEN /\ cli' = [state |-> "ended", code |-> 1, ended |-> "sys.exit",
                           total |-> 0, converted |-> 0]
                /\ UNCHANGED disk
           ELSE IF xml_files = {}
           THEN /\ cli' = [state |-> "ended", code |-> 0, ended |-> "sys.exit",
                           total |-> 0, converted |-> 0]
                /\ UNCHANGED disk
           ELSE \E order \in Orders(xml_files) :
                \E r \in {MainLoop(order, output_folder,
                                   [code |-> 0, ended |-> "return", converted |-> 0,
                                    written |-> {}])} :
                   /\ cli' = [state |-> "ended", code |-> r.code, ended |-> r.ended,
                              total |-> Len(order), converted |-> r.converted]
                   /\ disk' = disk \cup r.written
    /\ UNCHANGED << file_paths, file_listbox, output_folder_path, convert_btn,
                    app, messagebox >>
    /\ UNCHANGED convVars

(***************************************************************************)
(* Specification of the drivers: the events of the front end in any order, *)
(* and one run of the command line.                                        *)
(***************************************************************************)
InitBatch ==
    /\ xml_file = [kind |-> "missing"]
    /\ svg_file = NoFile
    /\ pc = "idle"
    /\ stderr = << >>
    /\ locals = [at |-> "call"]
    /\ GuiInit

NextBatch ==
    \/ \E filepaths \in SeqsUpTo(AllFiles, MaxDrop) : handle_drop(filepaths)
    \/ \E folder_selected \in DialogFolders \cup {""} : select_folder(folder_selected)
    \/ clear_list
    \/ start_conversion
    \/ \E input_folder \in InputFolders, output_folder_arg \in {"", "/out"} :
          main(input_folder, output_folder_arg)

SpecBatch == InitBatch /\ [][NextBatch]_vars

(***************************************************************************)
(* Properties of one call of the converter, checked under Spec.            *)
(***************************************************************************)
IsXml == xml_file.kind = "xml"
Root == xml_file.root
Reached(at) == pc # "call" /\ locals.at = at

\* The attribute k of attrib is present and is a number.
Parses(attrib, k) == k \in DOMAIN attrib /\ float(Str(attrib[k])).err = ""
RawOf(attrib, k) == float(Str(attrib[k])).val

SplineKeys == {"x1", "y1", "x2", "y2", "x3", "y3"}
ValidMark(m) == Parses(m.attrib, "x") /\ Parses(m.attrib, "y")
ValidPoint(e) == e.tag = "point" /\ Parses(e.attrib, "x") /\ Parses(e.attrib, "y")
ValidSpline(e) == e.tag = "spline" /\ \A k \in SplineKeys : Parses(e.attrib, k)
ValidElem(e) == ValidPoint(e) \/ ValidSpline(e)
BrokenSpline(e) == e.tag = "spline" /\ ~ValidSpline(e)

\* The positions of a sequence whose entry satisfies P.
Where(seq, P(_)) == {i \in 1..Len(seq) : P(seq[i])}
Count(seq, P(_)) == Cardinality(Where(seq, P))
HasValidElem(path) == Where(path, ValidElem) # {}

\* The children of all cut-paths, in document order.
RECURSIVE Flatten(_)
Flatten(paths) == IF Len(paths) = 0 THEN << >> ELSE Head(paths) \o Flatten(Tail(paths))

IsPathTag(el) == el.tag = "path"
IsRectTag(el) == el.tag = "rect"
IsMove(c) == c.cmd = "M"
IsCurve(c) == c.cmd = "C"
IsClose(c) == c.cmd = "Z"
HasMsg(m) == \E i \in 1..Len(stderr) : stderr[i].msg = m

\* The strings of the model that are no numbers.
NotNumbers == {<< "2", "0", "m", "m" >>, << >>}
AbsentOrNotNumber(attrib, k) == k \notin DOMAIN attrib \/ attrib[k] \in NotNumbers
BadSize ==
    IsXml /\ (AbsentOrNotNumber(Root.attrib, "width")
              \/ AbsentOrNotNumber(Root.attrib, "height"))

\* C2: a document whose width or height is absent or not a number ends the
\* call in the fatal outcome, before the scan, and the content at the output
\* path is what it was before the call.
C2_BadSizeIsFatal ==
    (pc # "call" /\ BadSize) =>
        /\ pc = "exit"
        /\ locals.at = "size"
        /\ svg_file = NoFile
        /\ HasMsg("Error: Could not read 'width' or 'height'")

\* C2 witness: such a document, with children, has been through the call.
C2_Witness ==
    /\ pc = "exit" /\ BadSize
    /\ Len(Root.marks) > 0 /\ Len(Root.paths) > 0
    /\ "width" \notin DOMAIN Root.attrib

\* C3 (as claimed): a spline with a missing or non-numeric attribute adds
\* nothing to the two lists of the pre-scan, which hold two entries per
\* valid mark, one per valid point and three per valid spline, and the
\* emitted paths hold one curve command per valid spline.
C3_BrokenSplineSkippedInBothPasses ==
    Reached("write") =>
        LET elements == Flatten(Root.paths)
            expected == 2 * Count(Root.marks, ValidMark)
                        + Count(elements, ValidPoint)
                        + 3 * Count(elements, ValidSpline)
            curves == Flatten([i \in 1..Len(locals.svg_elements.g) |->
                                  IF IsPathTag(locals.svg_elements.g[i])
                                  THEN locals.svg_elements.g[i].d ELSE << >>])
        IN  /\ Len(locals.all_x_coords) = expected
            /\ Len(locals.all_y_coords) = expected
            /\ Count(curves, IsCurve) = Count(elements, ValidSpline)

\* C4 (as claimed): the data of every emitted path starts with its only
\* move-to and ends with its only close-path.
C4_OneLeadingMoveTo ==
    Reached("write") =>
        \A i \in Where(locals.svg_elements.g, IsPathTag) :
            LET d == locals.svg_elements.g[i].d
            IN  /\ d[1].cmd = "M"
                /\ Count(d, IsMove) = 1
                /\ d[Len(d)].cmd = "Z"
                /\ Count(d, IsClose) = 1

\* Where the emitted transform takes the midpoint of the scanned bounding
\* box, in millionths, doubled: translate2, rotate(90) which takes (x, y) to
\* (-y, x), translate1.
BoxCollected == Len(locals.all_x_coords) > 0 /\ Len(locals.all_y_coords) > 0
TwiceMidX == min(locals.all_x_coords) + max(locals.all_x_coords)
TwiceMidY == min(locals.all_y_coords) + max(locals.all_y_coords)
TwiceImageX ==
    LET t == locals.svg_elements.transform
    IN  2 * 100 * t.translate1[1] - (TwiceMidY + 2 * 100 * t.translate2[2])
TwiceImageY ==
    LET t == locals.svg_elements.transform
    IN  2 * 100 * t.translate1[2] + (TwiceMidX + 2 * 100 * t.translate2[1])
Abs(v) == IF v < 0 THEN 0 - v ELSE v

\* C5 (as claimed): the emitted transform maps the midpoint of the scanned
\* bounding box exactly onto (width/2, height/2).
C5_CenterMapsExactly ==
    (Reached("write") /\ BoxCollected) =>
        /\ TwiceImageX = locals.width_mm
        /\ TwiceImageY = locals.height_mm

\* C5 (amended): the emitted transform maps the midpoint of the scanned
\* bounding box to within 0.0001 of (width/2, height/2) on each axis, the
\* two translations being printed with four decimals.
C5_CenterMapsWithinFormat ==
    (Reached("write") /\ BoxCollected) =>
        /\ Abs(TwiceImageX - locals.width_mm) <= 2 * 100
        /\ Abs(TwiceImageY - locals.height_mm) <= 2 * 100

\* C5 witness: a drawing whose center is not the canvas center, and whose
\* image under the printed transform is off the canvas center.
C5_Witness ==
    /\ pc = "returned" /\ BoxCollected
    /\ 2 * locals.drawing_center_x # locals.width_mm
    /\ TwiceImageX # locals.width_mm
    /\ Len(Root.marks) > 0 /\ Len(Root.paths) > 0

\* C6 (as claimed): a negative width or height is fatal, so a written SVG
\* has a width and a height that are not negative.
C6_SizeNotNegative ==
    pc = "returned" => (svg_file.width >= 0 /\ svg_file.height >= 0)

\* C6 failing input reached: a negative width has been written out.
C6_Reached == pc = "returned" /\ svg_file.width < 0

\* The factor the units attribute stands for: 0.01, 25.4 or 1.0.
UnitsOf(attrib) == IF "units" \in DOMAIN attrib THEN attrib["units"] ELSE "(absent)"
ExpectedFactor(u) ==
    IF u = "hundredths_mm" THEN [num |-> 1, den |-> 100]
    ELSE IF u = "inches" THEN [num |-> 254, den |-> 10]
    ELSE [num |-> 1, den |-> 1]
Scaled(v, u) == (v \div ExpectedFactor(u).den) * ExpectedFactor(u).num

\* The raw numbers found under the keys given, over the marks and the
\* children of the cut-paths of a document.
ElemsOf(root) ==
    {root.marks[i] : i \in 1..Len(root.marks)}
    \cup {Flatten(root.paths)[i] : i \in 1..Len(Flatten(root.paths))}
RawValues(root, keys) ==
    {RawOf(q[1].attrib, q[2]) :
        q \in {r \in ElemsOf(root) \X keys : Parses(r[1].attrib, r[2])}}

Half == reg_mark_size_mm \div 2
Printed(v) == {Fmt4(v, TRUE), Fmt4(v, FALSE)}

\* The values raw * factor of the X keys, as such or widened by half a
\* mark, and the values height - raw * factor of the Y keys.
ScaledXs(u) ==
    UNION {{Scaled(r, u), Scaled(r, u) - Half, Scaled(r, u) + Half} :
              r \in RawValues(Root, {"x", "x1", "x2", "x3"})}
ScaledYs(u) ==
    UNION {{locals.height_mm - Scaled(r, u), locals.height_mm - Scaled(r, u) - Half,
            locals.height_mm - Scaled(r, u) + Half} :
              r \in RawValues(Root, {"y", "y1", "y2", "y3"})}

SizeParses == IsXml /\ Parses(Root.attrib, "width") /\ Parses(Root.attrib, "height")

\* C7: the units attribute resolves to 0.01, 25.4, or else to 1.0 with a
\* warning and never fatally: with a readable size the call goes on to the
\* write; and that factor multiplies the width, the height and every
\* coordinate collected by the scan or written by the emit pass.
C7_ScaleFactor ==
    (pc # "call" /\ IsXml) =>
        LET u == UnitsOf(Root.attrib)
            xs == ScaledXs(u)
            ys == ScaledYs(u)
            printedXs == UNION {Printed(v) : v \in xs}
            printedYs == UNION {Printed(v) : v \in ys}
        IN  /\ locals.scale_factor = ExpectedFactor(u)
            /\ HasMsg("Warning: Unrecognized XML units")
                  <=> u \notin {"hundredths_mm", "inches"}
            /\ SizeParses =>
                  /\ locals.at = "write"
                  /\ pc = "returned" => svg_file = locals.svg_elements
                  /\ pc = "exit" => HasMsg("Error: Could not write to output file")
                  /\ locals.width_mm = Scaled(RawOf(Root.attrib, "width"), u)
                  /\ locals.height_mm = Scaled(RawOf(Root.attrib, "height"), u)
                  /\ \A i \in 1..Len(locals.all_x_coords) : locals.all_x_coords[i] \in xs
                  /\ \A i \in 1..Len(locals.all_y_coords) : locals.all_y_coords[i] \in ys
                  /\ \A i \in 1..Len(locals.svg_elements.g) :
                        LET el == locals.svg_elements.g[i]
                        IN  IF IsRectTag(el)
                            THEN el.x \in printedXs /\ el.y \in printedYs
                            ELSE \A j \in 1..Len(el.d) :
                                 \A k \in 1..Len(el.d[j].args) :
                                    el.d[j].args[k] \in
                                       IF k % 2 = 1 THEN printedXs ELSE printedYs

\* C7 witness: a document without a units attribute has been converted with
\* the warning, a rect and a path in its output.
C7_Witness ==
    /\ pc = "returned" /\ "units" \notin DOMAIN Root.attrib
    /\ HasMsg("Warning: Unrecognized XML units")
    /\ Where(svg_file.g, IsRectTag) # {} /\ Where(svg_file.g, IsPathTag) # {}

\* The path elements emitted for cut-path number i.
PathsFor(i) == {j \in Where(locals.svg_elements.g, IsPathTag) :
                   locals.svg_elements.g[j].cutpath = i}
SinglePoint(path) == Len(path) = 1 /\ ValidPoint(path[1])

\* C8: one path is emitted for every cut-path with a valid element, none
\* for a cut-path without; a cut-path that is one valid point gives M x y Z.
C8_OnePathPerCutPath ==
    Reached("write") =>
        \A i \in 1..Len(Root.paths) :
            /\ Cardinality(PathsFor(i)) = IF HasValidElem(Root.paths[i]) THEN 1 ELSE 0
            /\ SinglePoint(Root.paths[i]) =>
                  \A j \in PathsFor(i) :
                     LET d == locals.svg_elements.g[j].d
                     IN  /\ Len(d) = 2
                         /\ d[1].cmd = "M" /\ Len(d[1].args) = 2
                         /\ d[2] = Cmd("Z", << >>)

\* C8 witness: a cut-path of one valid point has been written as a path.
C8_Witness ==
    /\ pc = "returned"
    /\ \E i \in 1..Len(Root.paths) : SinglePoint(Root.paths[i]) /\ PathsFor(i) # {}

NothingCollected == Len(locals.all_x_coords) = 0 /\ Len(locals.all_y_coords) = 0

\* C9: a document with a readable size of which nothing contributed a
\* coordinate is converted: the empty-drawing warning is printed, the
\* drawing center is the canvas center, and the group written is empty.
C9_EmptyDrawing ==
    (Reached("write") /\ NothingCollected) =>
        /\ HasMsg("Warning: No valid drawing elements found")
        /\ 2 * locals.drawing_center_x = locals.width_mm
        /\ 2 * locals.drawing_center_y = locals.height_mm
        /\ locals.svg_elements.g = << >>
        /\ pc = "returned" \/ HasMsg("Error: Could not write to output file")
        /\ pc = "returned" => (svg_file.kind = "svg" /\ svg_file.g = << >>)

\* C9 witness: a document whose only mark is invalid has been written out.
C9_Witness ==
    /\ pc = "returned" /\ NothingCollected
    /\ Len(Root.marks) > 0
    /\ locals.width_mm > 0

(***************************************************************************)
(* Properties of the batch drivers, checked under SpecBatch.               *)
(***************************************************************************)
WellFormed(f) == Content(f).kind = "xml"
Malformed(f) == Content(f).kind = "malformed"

\* A batch with exactly one malformed file, the others being cut files
\* that convert.
OneMalformed(batch) ==
    /\ Cardinality({f \in batch : Malformed(f)}) = 1
    /\ \A f \in batch : Malformed(f) \/ WellFormed(f)

GuiBatchIsolated ==
    (start_conversion /\ OneMalformed(file_paths)) =>
        /\ app' = "running"
        /\ \A f \in file_paths :
              WellFormed(f) => OutputPath(output_folder_path, f) \in disk'
        /\ messagebox'.kind = "warning"
        /\ messagebox'.total_files = Cardinality(file_paths)
        /\ messagebox'.success_count = Cardinality(file_paths) - 1
        /\ Len(messagebox'.error_list) = 1

CliBatchIsolated ==
    \A input_folder \in InputFolders, output_folder_arg \in {"", "/out"} :
        LET xml_files == {f \in ListDir(input_folder) : f.ext = ".xml"}
            output_folder == IF output_folder_arg # "" THEN output_folder_arg
                             ELSE input_folder
        IN  (main(input_folder, output_folder_arg) /\ OneMalformed(xml_files)) =>
                /\ cli'.converted = Cardinality(xml_files) - 1
                /\ \A f \in xml_files :
                      WellFormed(f) => OutputPath(output_folder, f) \in disk'

\* C1 (as claimed): in a batch with exactly one malformed file, whatever its
\* position, both drivers convert and write every other file, and the front
\* end reports one failure and N-1 successes.
C1_BatchIsolation == [][GuiBatchIsolated /\ CliBatchIsolated]_vars

\* C10: the Convert button is enabled exactly when files are staged and the
\* output folder selected is a folder, and the listbox holds one entry, the
\* base name, per staged path; only .xml paths are staged.
C10_StagingInvariant ==
    /\ convert_btn = "normal" <=> (file_paths # {} /\ output_folder_path \in Folders)
    /\ Len(file_listbox) = Cardinality(file_paths)
    /\ \A p \in file_paths :
          /\ Cardinality({i \in 1..Len(file_listbox) : file_listbox[i] = basename(p)})
                = Cardinality({q \in file_paths : basename(q) = basename(p)})
          /\ p.ext \in {".xml", ".XML"}

\* C10 witness: after drops, a folder selection and a batch, two paths of
\* the same base name are staged and the button is enabled.
C10_Witness ==
    /\ convert_btn = "normal"
    /\ {FileA, FileU} \subseteq file_paths
    /\ messagebox.kind # "none"

====
